---- MODULE Spec2Model ----
(***************************************************************************)
(* Model of the record decoding layer of doves-rs (src/src/lib.rs): the    *)
(* field decoders (deser_not_empty, deser_affiliations,                    *)
(* deser_semicolon_list, deser_weight, deser_option_note), the Display     *)
(* implementations of Note, NoteName and Accidental, and the               *)
(* Deserialize implementation that #[derive(Deserialize)] with             *)
(* #[serde(deny_unknown_fields)] gives the struct Ring.                    *)
(*                                                                         *)
(* A Rust char is modelled as a one-token TLA+ string and a Rust str as a  *)
(* sequence of chars.  The three musical glyphs are not ASCII and are      *)
(* written by their code points.                                           *)
(***************************************************************************)
EXTENDS Integers, Sequences, FiniteSets, TLC

VARIABLES s, note, rec, out, pc

vars == <<s, note, rec, out, pc>>

----------------------------------------------------------------------------
(* Characters *)

\* const FLAT: char (U+266D)
FLAT == "U+266D"

\* const SHARP: char (U+266F)
SHARP == "U+266F"

\* the natural sign matched by deser_option_note (U+266E)
NATURAL_SIGN == "U+266E"

\* the variants of enum NoteName; each name is also the char that denotes it
NoteName == {"A", "B", "C", "D", "E", "F", "G"}

\* the variants of enum Accidental
Accidental == {"Flat", "Natural", "Sharp"}

\* struct Note { name, accidental }
Note == [name : NoteName, accidental : Accidental]

\* the value of `note` when no Note is being displayed
NoNote == [name |-> "-", accidental |-> "-"]

----------------------------------------------------------------------------
(* Results of a call: Result::Ok, Result::Err, or a panic that unwinds out  *)
(* of the call.                                                             *)

Ok(v) == [kind |-> "Ok", val |-> v]

Err(e) == [kind |-> "Err", err |-> e]

Panic == [kind |-> "Panic", msg |-> "not yet implemented"]

NotRun == [kind |-> "NotRun"]

\* Option::None and Option::Some
None == [some |-> FALSE]

Some(v) == [some |-> TRUE, v |-> v]

----------------------------------------------------------------------------
(* Raw values handed over by the serde Deserializer.  A value carries the   *)
(* kind under which the data format presents it and its text.              *)

Str(chars) == [t |-> "str", v |-> chars]

U64(digits) == [t |-> "u64", v |-> digits]

F64(digits) == [t |-> "f64", v |-> digits]

Absent == [t |-> "none", v |-> <<>>]

\* serde::de::Error::invalid_type, raised by a primitive's visitor
invalid_type(de, expected) == [e |-> "invalid_type", got |-> de.t, what |-> expected]

\* <&str>::deserialize(de)
deserialize_str(de) == IF de.t = "str" THEN Ok(de.v) ELSE Err(invalid_type(de, "str"))

----------------------------------------------------------------------------
(* Field decoders *)

\* str::is_empty
is_empty(chars) == Len(chars) = 0

\* <&str>::deserialize(de).map(str::is_empty)
deser_not_empty(de) ==
    LET r == deserialize_str(de)
    IN  IF r.kind = "Ok" THEN Ok(is_empty(r.val)) ELSE r

\* enum Affiliation
Affiliation == {"CambridgeUni", "ManchesterUni", "OxfordUni", "OxfordDiocese", "Surrey"}

\* the "Dove's value" documented on each variant of Affiliation; "" for a
\* code that no variant documents
AffiliationOf(code) ==
    CASE code = <<"C", "U", "G">> -> "CambridgeUni"
      [] code = <<"M", "U", "G">> -> "ManchesterUni"
      [] code = <<"O", "U", "S">> -> "OxfordUni"
      [] code = <<"O", "D", "G">> -> "OxfordDiocese"
      [] code = <<"S", "u", "r", "r">> -> "Surrey"
      [] OTHER -> ""

\* the body of deser_affiliations is todo!(): it panics before reading `de`
deser_affiliations(de) == Panic

RECURSIVE split_from(_, _, _)
\* str::split(';'): the segments of chars[i..], `cur` being the segment read so far
split_from(chars, i, cur) ==
    IF i > Len(chars) THEN <<cur>>
    ELSE IF chars[i] = ";" THEN <<cur>> \o split_from(chars, i + 1, <<>>)
    ELSE split_from(chars, i + 1, Append(cur, chars[i]))

\* a split that drops the empty segments
split_skip_empty(chars) == SelectSeq(split_from(chars, 1, <<>>), LAMBDA seg : Len(seg) > 0)

split(chars) == split_from(chars, 1, <<>>)

\* <&str>::deserialize(de).map(|s| s.split(';').map(str::to_owned).collect())
deser_semicolon_list(de) ==
    LET r == deserialize_str(de)
    IN  IF r.kind = "Ok" THEN Ok(split(r.val)) ELSE r

\* f64::deserialize(de).map(|lbs| Weight { lbs }): the f64 visitor takes
\* floats and integers
deser_weight(de) ==
    IF de.t \in {"f64", "u64"} THEN Ok([lbs |-> de.v])
    ELSE Err(invalid_type(de, "f64"))

\* a note-name match that folds lower case into upper case
match_name_any_case(c) ==
    IF c \in NoteName THEN Ok(c)
    ELSE IF c = "a" THEN Ok("A")
    ELSE IF c = "b" THEN Ok("B")
    ELSE Err([e |-> "custom", msg |-> "is not a note name", char |-> c])

\* first match of deser_option_note: chars.next() as a note name
match_name(c) == IF c \in NoteName THEN Ok(c) ELSE Err([e |-> "custom", msg |-> "is not a note name", char |-> c])

\* an accidental match that knows the glyphs only, not the ASCII 'b' and '#'
match_accidental_glyphs_only(chars) ==
    IF Len(chars) < 2 THEN Ok("Natural")
    ELSE IF chars[2] = FLAT THEN Ok("Flat")
    ELSE IF chars[2] = NATURAL_SIGN THEN Ok("Natural")
    ELSE IF chars[2] = SHARP THEN Ok("Sharp")
    ELSE Err([e |-> "custom", msg |-> "is not an accidental name", char |-> chars[2]])

\* an accidental match that rejects a third character
match_accidental_strict(chars) ==
    IF Len(chars) < 2 THEN Ok("Natural")
    ELSE IF Len(chars) > 2 THEN Err([e |-> "custom", msg |-> "trailing characters", char |-> chars[3]])
    ELSE IF chars[2] \in {FLAT, "b"} THEN Ok("Flat")
    ELSE IF chars[2] = NATURAL_SIGN THEN Ok("Natural")
    ELSE IF chars[2] \in {SHARP, "#"} THEN Ok("Sharp")
    ELSE Err([e |-> "custom", msg |-> "is not an accidental name", char |-> chars[2]])

\* second match of deser_option_note: chars.next() as an accidental
match_accidental(chars) ==
    IF Len(chars) < 2 THEN Ok("Natural")
    ELSE IF chars[2] \in {FLAT, "b"} THEN Ok("Flat")
    ELSE IF chars[2] = NATURAL_SIGN THEN Ok("Natural")
    ELSE IF chars[2] \in {SHARP, "#"} THEN Ok("Sharp")
    ELSE Err([e |-> "custom", msg |-> "is not an accidental name", char |-> chars[2]])

\* fn deser_option_note
deser_option_note(de) ==
    LET r == deserialize_str(de)
    IN  IF r.kind # "Ok" THEN r
        ELSE IF Len(r.val) = 0 THEN Ok(None)
        ELSE LET name == match_name(r.val[1])
             IN  IF name.kind # "Ok" THEN name
                 ELSE LET accidental == match_accidental(r.val)
                      IN  IF accidental.kind # "Ok" THEN accidental
                          ELSE Ok(Some([name |-> name.val, accidental |-> accidental.val]))

----------------------------------------------------------------------------
(* Display *)

\* impl Display for NoteName: the Debug name of the variant
NoteName_fmt(name) == <<name>>

\* a Display for Accidental with the two glyphs exchanged
Accidental_fmt_swapped(accidental) ==
    CASE accidental = "Flat" -> <<SHARP>>
      [] accidental = "Natural" -> <<>>
      [] accidental = "Sharp" -> <<FLAT>>

\* impl Display for Accidental
Accidental_fmt(accidental) ==
    CASE accidental = "Flat" -> <<FLAT>>
      [] accidental = "Natural" -> <<>>
      [] accidental = "Sharp" -> <<SHARP>>

\* impl Display for Note: write!(f, "{}{}", self.name, self.accidental)
Note_fmt(n) == NoteName_fmt(n.name) \o Accidental_fmt(n.accidental)

----------------------------------------------------------------------------
(* Inputs of the decoders *)

MaxNoteLen == 3

MaxListLen == 4

MaxAffLen == 3

NoteChars == NoteName \cup {"H", "a", "b", "#", "$", FLAT, NATURAL_SIGN, SHARP}

ListChars == {"a", "b", " ", ";"}

AffChars == {"C", "U", "G", "O", "D", ";"}

Strings(alphabet, n) == UNION {[1..k -> alphabet] : k \in 0..n}

RawStrings ==
    Strings(NoteChars, MaxNoteLen) \cup Strings(ListChars, MaxListLen)
        \cup Strings(AffChars, MaxAffLen)

----------------------------------------------------------------------------
(* The decoders and Display, each applied once to an input.  A run either   *)
(* starts from a raw string, or from a Note whose rendering becomes the     *)
(* raw string.                                                              *)

InitDecoders ==
    /\ rec = <<>>
    /\ out = NotRun
    /\ \/ pc = "raw" /\ note = NoNote /\ s \in RawStrings
       \/ pc = "note" /\ note \in Note /\ s = <<>>

\* note.to_string(), through impl Display for Note
DisplayNote ==
    /\ pc = "note"
    /\ s' = Note_fmt(note)
    /\ pc' = "raw"
    /\ UNCHANGED <<note, rec, out>>

CallDeserNotEmpty ==
    /\ pc = "raw"
    /\ out' = deser_not_empty(Str(s))
    /\ pc' = "deser_not_empty"
    /\ UNCHANGED <<s, note, rec>>

CallDeserAffiliations ==
    /\ pc = "raw"
    /\ out' = deser_affiliations(Str(s))
    /\ pc' = "deser_affiliations"
    /\ UNCHANGED <<s, note, rec>>

CallDeserSemicolonList ==
    /\ pc = "raw"
    /\ out' = deser_semicolon_list(Str(s))
    /\ pc' = "deser_semicolon_list"
    /\ UNCHANGED <<s, note, rec>>

CallDeserOptionNote ==
    /\ pc = "raw"
    /\ out' = deser_option_note(Str(s))
    /\ pc' = "deser_option_note"
    /\ UNCHANGED <<s, note, rec>>

NextDecoders ==
    \/ DisplayNote
    \/ CallDeserNotEmpty
    \/ CallDeserAffiliations
    \/ CallDeserSemicolonList
    \/ CallDeserOptionNote

SpecDecoders == InitDecoders /\ [][NextDecoders]_vars

----------------------------------------------------------------------------
(* struct Ring and the Deserialize implementation derived for it *)

Field(name, ty, opt, with) == [name |-> name, ty |-> ty, opt |-> opt, with |-> with]

\* the fields of struct Ring in declaration order: the serde name, the type
\* (the T of an Option<T>), whether the type is an Option, and the
\* deserialize_with function ("" when there is none)
Schema == <<
    Field("TowerID", "usize", FALSE, ""),
    Field("RingType", "RingType", FALSE, ""),
    Field("Bells", "usize", FALSE, ""),
    Field("UR", "bool", FALSE, "deser_not_empty"),
    Field("GF", "bool", FALSE, "deser_not_empty"),
    Field("Toilet", "bool", FALSE, "deser_not_empty"),
    Field("Simulator", "bool", FALSE, "deser_not_empty"),
    Field("Affiliations", "HashSet<Affiliation>", FALSE, "deser_affiliations"),
    Field("Practice", "String", TRUE, ""),
    Field("TowerBase", "usize", FALSE, ""),
    Field("DoveID", "String", TRUE, ""),
    Field("Wt", "Weight", FALSE, "deser_weight"),
    Field("Note", "Note", TRUE, "deser_option_note"),
    Field("Hz", "f64", TRUE, ""),
    Field("Details", "Details", FALSE, ""),
    Field("ExtraInfo", "Vec<String>", FALSE, "deser_semicolon_list"),
    Field("WebPage", "String", TRUE, ""),
    Field("Semitones", "String", TRUE, ""),
    Field("App", "bool", FALSE, "deser_not_empty"),
    Field("Place", "String", FALSE, ""),
    Field("Place2", "String", TRUE, ""),
    Field("PlaceCL", "String", TRUE, ""),
    Field("County", "String", TRUE, ""),
    Field("Country", "String", TRUE, ""),
    Field("ISO3166code", "String", TRUE, ""),
    Field("NG", "String", TRUE, ""),
    Field("Postcode", "String", TRUE, ""),
    Field("Long", "f64", TRUE, ""),
    Field("Lat", "f64", TRUE, ""),
    Field("SNLong", "f64", TRUE, ""),
    Field("SNLat", "f64", TRUE, ""),
    Field("OvhaulYr", "usize", TRUE, ""),
    Field("Contractor", "String", TRUE, ""),
    Field("TuneYr", "usize", TRUE, ""),
    Field("BldgID", "usize", TRUE, ""),
    Field("LGrade", "String", TRUE, ""),
    Field("ChurchCare", "usize", TRUE, ""),
    Field("Dedicn", "String", FALSE, ""),
    Field("AltName", "String", TRUE, ""),
    Field("Diocese", "String", TRUE, "") >>

FieldNames == {Schema[i].name : i \in 1..Len(Schema)}

FieldOf(name) == Schema[CHOOSE i \in 1..Len(Schema) : Schema[i].name = name]

\* enum RingType, #[serde(field_identifier)]: the tag of each variant
RingType_deserialize(de) ==
    IF de.t # "str" THEN Err(invalid_type(de, "variant identifier"))
    ELSE IF de.v = <<"F", "u", "l", "l", " ", "c", "i", "r", "c", "l", "e", " ", "r", "i", "n", "g">>
         THEN Ok("FullCircle")
    ELSE IF de.v = <<"C", "a", "r", "i", "l", "l", "o", "n">> THEN Ok("Carillon")
    ELSE Err([e |-> "unknown_variant", got |-> de.v, what |-> "RingType"])

\* enum Details, #[serde(field_identifier)]
Details_deserialize(de) ==
    IF de.t # "str" THEN Err(invalid_type(de, "variant identifier"))
    ELSE IF de.v = <<"P">> THEN Ok("P")
    ELSE IF de.v = <<"C">> THEN Ok("C")
    ELSE Err([e |-> "unknown_variant", got |-> de.v, what |-> "Details"])

\* T::deserialize for the types of the fields that have no deserialize_with
deserialize_type(ty, de) ==
    CASE ty = "usize" -> IF de.t = "u64" THEN Ok(de.v) ELSE Err(invalid_type(de, "usize"))
      [] ty = "f64" -> IF de.t \in {"f64", "u64"} THEN Ok(de.v) ELSE Err(invalid_type(de, "f64"))
      [] ty = "String" -> IF de.t = "str" THEN Ok(de.v) ELSE Err(invalid_type(de, "a string"))
      [] ty = "RingType" -> RingType_deserialize(de)
      [] ty = "Details" -> Details_deserialize(de)

\* Option<T>::deserialize: none for an absent value, else Some of T's value
deserialize_option(ty, de) ==
    IF de.t = "none" THEN Ok(None)
    ELSE LET r == deserialize_type(ty, de)
         IN  IF r.kind = "Ok" THEN Ok(Some(r.val)) ELSE r

\* map.next_value() for a field: its deserialize_with function when it has
\* one, else the Deserialize of its type
deserialize_value(field, de) ==
    CASE field.with = "deser_not_empty" -> deser_not_empty(de)
      [] field.with = "deser_affiliations" -> deser_affiliations(de)
      [] field.with = "deser_weight" -> deser_weight(de)
      [] field.with = "deser_option_note" -> deser_option_note(de)
      [] field.with = "deser_semicolon_list" -> deser_semicolon_list(de)
      [] field.with = "" /\ field.opt -> deserialize_option(field.ty, de)
      [] OTHER -> deserialize_type(field.ty, de)

\* a derive that takes a field with deserialize_with as defaulted
is_required_without_with(field) == field.with = "" /\ ~ field.opt

\* what the derive does for a field absent from the input: a field with
\* deserialize_with and no default is an error, as is one whose type is not
\* an Option; an Option field becomes None
is_required(field) == field.with # "" \/ ~ field.opt

\* the end of visit_map: the first absent required field in declaration
\* order is the error; else the Ring is built, absent Options being None
build(ring) ==
    LET missing == {i \in 1..Len(Schema) :
                        Schema[i].name \notin DOMAIN ring /\ is_required(Schema[i])}
    IN  IF missing # {}
        THEN Err([e |-> "missing_field",
                  field |-> Schema[CHOOSE i \in missing : \A j \in missing : i <= j].name])
        ELSE Ok([n \in FieldNames |-> IF n \in DOMAIN ring THEN ring[n] ELSE None])

\* map.next_key::<__Field>() under #[serde(deny_unknown_fields)]
deserialize_key(key) ==
    IF key \in FieldNames THEN Ok(key) ELSE Err([e |-> "unknown_field", field |-> key])

RECURSIVE visit_map(_, _, _)
\* the derived Visitor::visit_map: the entries are taken in input order and
\* the first failure returns; `ring` holds the fields decoded so far
visit_map(entries, i, ring) ==
    IF i > Len(entries) THEN build(ring)
    ELSE LET key == deserialize_key(entries[i].name)
         IN  IF key.kind # "Ok" THEN key
             ELSE IF key.val \in DOMAIN ring
                  THEN Err([e |-> "duplicate_field", field |-> key.val])
             ELSE LET r == deserialize_value(FieldOf(key.val), entries[i].value)
                  IN  IF r.kind # "Ok" THEN r
                      ELSE visit_map(entries, i + 1, (key.val :> r.val) @@ ring)

\* a deserialize that looks for the absent required fields before it
\* decodes a value
Ring_deserialize_missing_first(entries) ==
    LET present == {entries[i].name : i \in 1..Len(entries)} \cap FieldNames
        absent == build([n \in present |-> None])
    IN  IF absent.kind = "Err" THEN absent ELSE visit_map(entries, 1, <<>>)

\* a deserialize without #[serde(deny_unknown_fields)]: an entry whose name
\* is no field of Ring is skipped
Ring_deserialize_ignoring_unknown(entries) ==
    visit_map(SelectSeq(entries, LAMBDA entry : entry.name \in FieldNames), 1, <<>>)

\* <Ring as Deserialize>::deserialize
Ring_deserialize(entries) == visit_map(entries, 1, <<>>)

----------------------------------------------------------------------------
(* Raw records: the fields of the schema in declaration order or in the     *)
(* reverse order, the fields of VariedFields each valid, invalid or absent  *)
(* and every other field valid, with possibly one more entry: a name        *)
(* outside the schema in front or at the end, or the first entry again.     *)

Entry(name, value) == [name |-> name, value |-> value]

ValidValue(field) ==
    CASE field.with = "deser_not_empty" -> Str(<<"T">>)
      [] field.with = "deser_affiliations" -> Str(<<"C", "U", "G">>)
      [] field.with = "deser_weight" -> F64(<<"1", "2", ".", "5">>)
      [] field.with = "deser_option_note" -> Str(<<"C", "#">>)
      [] field.with = "deser_semicolon_list" -> Str(<<"a", ";", "b">>)
      [] field.with = "" /\ field.ty = "usize" -> U64(<<"1", "2">>)
      [] field.with = "" /\ field.ty = "f64" -> F64(<<"0", ".", "5">>)
      [] field.with = "" /\ field.ty = "String" -> Str(<<"a">>)
      [] field.with = "" /\ field.ty = "RingType" -> Str(<<"C", "a", "r", "i", "l", "l", "o", "n">>)
      [] field.with = "" /\ field.ty = "Details" -> Str(<<"P">>)

InvalidValue(field) ==
    CASE field.with \in {"deser_not_empty", "deser_affiliations", "deser_semicolon_list"} -> U64(<<"1">>)
      [] field.with = "deser_weight" -> Str(<<"a", "b", "c">>)
      [] field.with = "deser_option_note" -> Str(<<"H">>)
      [] field.with = "" /\ field.ty \in {"usize", "f64"} -> Str(<<"a">>)
      [] field.with = "" /\ field.ty = "String" -> U64(<<"1">>)
      [] field.with = "" /\ field.ty \in {"RingType", "Details"} -> Str(<<"X">>)

VariedFields == {"TowerID", "UR", "Affiliations", "Practice", "TowerBase", "Note", "Details", "Place"}

Status == {"valid", "invalid", "absent"}

Extra == {"none", "unknown first", "unknown last", "duplicate last"}

Reverse(seq) == [i \in 1..Len(seq) |-> seq[Len(seq) + 1 - i]]

StatusOf(status, name) == IF name \in VariedFields THEN status[name] ELSE "valid"

SchemaEntries(status) ==
    LET present == SelectSeq(Schema, LAMBDA f : StatusOf(status, f.name) # "absent")
    IN  [i \in 1..Len(present) |->
            Entry(present[i].name,
                  IF StatusOf(status, present[i].name) = "valid"
                  THEN ValidValue(present[i]) ELSE InvalidValue(present[i]))]

BuildRecord(status, reversed, extra) ==
    LET base == IF reversed THEN Reverse(SchemaEntries(status)) ELSE SchemaEntries(status)
    IN  CASE extra = "none" -> base
          [] extra = "unknown first" -> <<Entry("Bogus", Str(<<"a">>))>> \o base
          [] extra = "unknown last" -> Append(base, Entry("Bogus", Str(<<"a">>)))
          [] extra = "duplicate last" -> Append(base, base[1])

RawRecords ==
    {BuildRecord(status, reversed, extra) :
        status \in [VariedFields -> Status], reversed \in BOOLEAN, extra \in Extra}

InitRing ==
    /\ rec \in RawRecords
    /\ s = <<>>
    /\ note = NoNote
    /\ out = NotRun
    /\ pc = "record"

\* Ring::deserialize applied to the raw record
DeserializeRing ==
    /\ pc = "record"
    /\ out' = Ring_deserialize(rec)
    /\ pc' = "deserialized"
    /\ UNCHANGED <<s, note, rec>>

NextRing == DeserializeRing

SpecRing == InitRing /\ [][NextRing]_vars

----------------------------------------------------------------------------
(* Properties of the decoders, checked under SpecDecoders *)

\* the number of ';' in chars
RECURSIVE count_delimiters(_)
count_delimiters(chars) ==
    IF chars = <<>> THEN 0
    ELSE (IF Head(chars) = ";" THEN 1 ELSE 0) + count_delimiters(Tail(chars))

\* the segments joined with ';'
RECURSIVE join(_)
join(segments) ==
    IF Len(segments) = 1 THEN segments[1]
    ELSE segments[1] \o <<";">> \o join(Tail(segments))

\* C1: for every raw string s, deser_not_empty returns false if s is empty
\* and true if s is not empty, whatever its content.
C1_PresenceFlag ==
    pc = "deser_not_empty" =>
        /\ out.kind = "Ok"
        /\ out.val = (Len(s) > 0)

\* the set of variants that the codes of a raw affiliation string stand for
ExpectedAffiliations(chars) ==
    IF chars = <<>> THEN {}
    ELSE {AffiliationOf(split(chars)[i]) : i \in 1..Len(split(chars))}

\* C2: for every raw affiliation string, deser_affiliations returns a value
\* and never aborts: the empty string gives the empty set, codes that are
\* all in the vocabulary give the set of their variants, and a code outside
\* the vocabulary gives an error for that code.
C2_AffiliationsDecode ==
    pc = "deser_affiliations" =>
        /\ out.kind \in {"Ok", "Err"}
        /\ IF "" \in ExpectedAffiliations(s)
           THEN /\ out.kind = "Err"
                /\ out.err.e = "UnknownAffiliation"
                /\ AffiliationOf(out.err.code) = ""
           ELSE /\ out.kind = "Ok"
                /\ out.val = ExpectedAffiliations(s)

\* C6: for a string of at most two characters that starts with one of A..G,
\* deser_option_note returns the pitch of that letter, flat for a second
\* character U+266D or 'b', natural for U+266E or none, sharp for U+266F or
\* '#'; for the empty string it returns None.
C6_PitchDecode ==
    pc = "deser_option_note" =>
        /\ Len(s) = 0 => out.kind = "Ok" /\ out.val.some = FALSE
        /\ \A letter \in {"A", "B", "C", "D", "E", "F", "G"} :
             /\ s = <<letter>> =>
                    /\ out.kind = "Ok" /\ out.val.some
                    /\ out.val.v = [name |-> letter, accidental |-> "Natural"]
             /\ s \in {<<letter, "U+266D">>, <<letter, "b">>} =>
                    /\ out.kind = "Ok" /\ out.val.some
                    /\ out.val.v = [name |-> letter, accidental |-> "Flat"]
             /\ s = <<letter, "U+266E">> =>
                    /\ out.kind = "Ok" /\ out.val.some
                    /\ out.val.v = [name |-> letter, accidental |-> "Natural"]
             /\ s \in {<<letter, "U+266F">>, <<letter, "#">>} =>
                    /\ out.kind = "Ok" /\ out.val.some
                    /\ out.val.v = [name |-> letter, accidental |-> "Sharp"]

C6_Witness ==
    /\ pc = "deser_option_note"
    /\ s = <<"C", "b">>
    /\ out.kind = "Ok"
    /\ out.val.some
    /\ out.val.v.accidental = "Flat"

\* C7: a non-empty string whose first character is not one of the upper-case
\* letters A..G fails with the note-name error, whatever follows; a string
\* whose first character is in A..G and whose second character is present
\* and not one of U+266D, 'b', U+266E, U+266F, '#' fails with the accidental
\* error.
C7_PitchRejects ==
    pc = "deser_option_note" =>
        /\ (Len(s) > 0 /\ s[1] \notin {"A", "B", "C", "D", "E", "F", "G"}) =>
               /\ out.kind = "Err"
               /\ out.err.msg = "is not a note name"
               /\ out.err.char = s[1]
        /\ (/\ Len(s) > 1
            /\ s[1] \in {"A", "B", "C", "D", "E", "F", "G"}
            /\ s[2] \notin {"U+266D", "b", "U+266E", "U+266F", "#"}) =>
               /\ out.kind = "Err"
               /\ out.err.msg = "is not an accidental name"
               /\ out.err.char = s[2]

C7_Witness ==
    /\ pc = "deser_option_note"
    /\ s = <<"a", "$">>
    /\ out.kind = "Err"
    /\ out.err.msg = "is not a note name"

\* C8: deser_semicolon_list returns the literal split of s on ';': as many
\* elements as s has ';' plus one, none of them holding a ';', empty
\* segments and blanks kept, and joining them with ';' gives s back.
C8_ListSplit ==
    pc = "deser_semicolon_list" =>
        /\ out.kind = "Ok"
        /\ Len(out.val) = count_delimiters(s) + 1
        /\ \A i \in 1..Len(out.val) : count_delimiters(out.val[i]) = 0
        /\ join(out.val) = s
        /\ s = <<>> => out.val = << <<>> >>
        /\ s = <<"a", ";", ";", "b">> => out.val = << <<"a">>, <<>>, <<"b">> >>

C8_Witness ==
    /\ pc = "deser_semicolon_list"
    /\ s = <<";", " ", ";", ";">>
    /\ out.kind = "Ok"
    /\ out.val = << <<>>, <<" ">>, <<>>, <<>> >>

\* C9: for a string longer than two characters, deser_option_note gives the
\* outcome (the pitch or the error) it gives for the two-character prefix.
C9_PitchIgnoresTrailing ==
    (pc = "deser_option_note" /\ Len(s) > 2) =>
        LET prefix == deser_option_note(Str(SubSeq(s, 1, 2)))
        IN  /\ out.kind = prefix.kind
            /\ out = prefix

C9_Witness ==
    /\ pc = "deser_option_note"
    /\ s = <<"C", "#", "$">>
    /\ out.kind = "Ok"
    /\ out.val.some
    /\ out.val.v = [name |-> "C", accidental |-> "Sharp"]

\* C10: each of the 21 pitches renders as its root letter followed by
\* nothing for natural, the one glyph U+266D for flat, the one glyph U+266F
\* for sharp; decoding the rendered text gives the same pitch back; distinct
\* pitches render to distinct texts.
C10_DisplayRoundTrip ==
    (note \in Note /\ pc # "note") =>
        /\ s[1] = note.name
        /\ note.accidental = "Natural" => s = <<note.name>>
        /\ note.accidental = "Flat" => s = <<note.name, "U+266D">>
        /\ note.accidental = "Sharp" => s = <<note.name, "U+266F">>
        /\ \A other \in Note : Note_fmt(other) = s => other = note
        /\ pc = "deser_option_note" =>
               /\ out.kind = "Ok"
               /\ out.val.some
               /\ out.val.v = note

C10_Witness ==
    /\ pc = "deser_option_note"
    /\ note = [name |-> "E", accidental |-> "Flat"]
    /\ s = <<"E", "U+266D">>
    /\ out.kind = "Ok"
    /\ out.val.some
    /\ out.val.v = note

----------------------------------------------------------------------------
(* Properties of Ring::deserialize, checked under SpecRing *)

\* the fields that the specification calls mandatory
SpecMandatory ==
    {"TowerID", "RingType", "Bells", "UR", "GF", "Toilet", "Simulator", "App",
     "Wt", "Place", "Dedicn"}

\* the fields whose absence the derived code reports, in declaration order
CodeRequired ==
    <<"TowerID", "RingType", "Bells", "UR", "GF", "Toilet", "Simulator",
      "Affiliations", "TowerBase", "Wt", "Note", "Details", "ExtraInfo", "App",
      "Place", "Dedicn">>

Names(entries) == {entries[i].name : i \in 1..Len(entries)}

IsUnknown(entries, i) == entries[i].name \notin FieldNames

IsDuplicate(entries, i) == \E j \in 1..(i - 1) : entries[j].name = entries[i].name

IsInvalid(entries, i) ==
    /\ ~ IsUnknown(entries, i)
    /\ entries[i].value = InvalidValue(FieldOf(entries[i].name))

\* the entries at which decoding cannot go on
Failing(entries) ==
    {i \in 1..Len(entries) :
        \/ IsUnknown(entries, i)
        \/ IsDuplicate(entries, i)
        \/ IsInvalid(entries, i)
        \/ entries[i].name = "Affiliations"}

\* the first of them in input order, 0 when there is none
FirstFailing(entries) ==
    IF Failing(entries) = {} THEN 0
    ELSE CHOOSE i \in Failing(entries) : \A j \in Failing(entries) : i <= j

\* the number k of faulty fields of a record: names outside the schema,
\* values that fail their decoder, and absent mandatory fields
FaultyCount(entries) ==
    Cardinality({i \in 1..Len(entries) : IsUnknown(entries, i) \/ IsInvalid(entries, i)})
        + Cardinality(SpecMandatory \ Names(entries))

\* the number of errors that an outcome reports
ReportedCount(result) == IF result.kind = "Err" THEN 1 ELSE 0

OnlyValidSchemaFields(entries) ==
    \A i \in 1..Len(entries) :
        /\ ~ IsUnknown(entries, i)
        /\ ~ IsDuplicate(entries, i)
        /\ entries[i].value = ValidValue(FieldOf(entries[i].name))

====
